---- MODULE Spec2Model ----
(***************************************************************************)
(* A model of the HTTP router of package direct (direct.go).               *)
(*                                                                         *)
(* Strings are sequences of one-character strings, so that Trim, Split,    *)
(* HasPrefix, HasSuffix, TrimPrefix, ToLower and slicing are computed      *)
(* character by character, as the Go standard library computes them.       *)
(* A context.Context is the chain of (key, value) pairs that               *)
(* context.WithValue builds, newest pair last.  An http.Handler is either  *)
(* a base handler or a middleware wrapped around a next handler.           *)
(***************************************************************************)
EXTENDS Integers, Sequences, FiniteSets, TLC

VARIABLES routes, mw, NotFound, registered, reqs, mt

vars == <<routes, mw, NotFound, registered, reqs, mt>>

(***************************************************************************)
(* Bounds of the model.                                                    *)
(***************************************************************************)
MaxRoutes == 2
MaxMw == 2
MaxMwRoutes == 1
MaxPatSegs == 2
MaxPathSegs == 3

(***************************************************************************)
(* Characters and string literals.                                         *)
(***************************************************************************)
SLASH == "/"
COLON == ":"
STAR == <<"*">>
DOTS == <<".", ".", ".">>
EMPTY == << >>

(***************************************************************************)
(* package strings                                                         *)
(***************************************************************************)
HasPrefix(s, prefix) ==
    /\ Len(prefix) <= Len(s)
    /\ SubSeq(s, 1, Len(prefix)) = prefix

HasSuffix(s, suffix) ==
    /\ Len(suffix) <= Len(s)
    /\ SubSeq(s, Len(s) - Len(suffix) + 1, Len(s)) = suffix

TrimPrefix(s, prefix) ==
    IF HasPrefix(s, prefix) THEN SubSeq(s, Len(prefix) + 1, Len(s)) ELSE s

RECURSIVE TrimLeft(_, _)
TrimLeft(s, c) ==
    IF s # << >> /\ Head(s) = c THEN TrimLeft(Tail(s), c) ELSE s

RECURSIVE TrimRight(_, _)
TrimRight(s, c) ==
    IF s # << >> /\ s[Len(s)] = c THEN TrimRight(SubSeq(s, 1, Len(s) - 1), c) ELSE s

Trim(s, c) == TrimRight(TrimLeft(s, c), c)

\* strings.Split(s, sep) for a one-character separator: the pieces between
\* the separators, the empty string giving one empty piece.
RECURSIVE SplitFrom(_, _, _, _)
SplitFrom(s, c, i, cur) ==
    IF i > Len(s) THEN <<cur>>
    ELSE IF s[i] = c THEN <<cur>> \o SplitFrom(s, c, i + 1, << >>)
    ELSE SplitFrom(s, c, i + 1, Append(cur, s[i]))

Split(s, c) == SplitFrom(s, c, 1, << >>)

\* The letters of the method strings of the model and their lower case.
LowerChar(c) ==
    CASE c = "G" -> "g" [] c = "E" -> "e" [] c = "T" -> "t"
      [] c = "P" -> "p" [] c = "O" -> "o" [] c = "S" -> "s"
      [] OTHER -> c

RECURSIVE ToLower(_)
ToLower(s) ==
    IF s = << >> THEN << >> ELSE <<LowerChar(Head(s))>> \o ToLower(Tail(s))

(***************************************************************************)
(* package context                                                         *)
(***************************************************************************)
NilCtx == [nil |-> TRUE, vals |-> << >>]
Background == [nil |-> FALSE, vals |-> << >>]

WithValue(ctx, key, val) ==
    [nil |-> FALSE, vals |-> Append(ctx.vals, <<key, val>>)]

\* ctx.Value(key): the value of the newest pair with that key, if any.
RECURSIVE ValueFrom(_, _, _)
ValueFrom(ctx, key, i) ==
    IF i = 0 THEN [found |-> FALSE, val |-> << >>]
    ELSE IF ctx.vals[i][1] = key THEN [found |-> TRUE, val |-> ctx.vals[i][2]]
    ELSE ValueFrom(ctx, key, i - 1)

Value(ctx, key) == ValueFrom(ctx, key, Len(ctx.vals))

Param(ctx, param) ==
    LET v == Value(ctx, param)
    IN  IF ~v.found THEN EMPTY ELSE v.val

(***************************************************************************)
(* Handlers and middleware                                                 *)
(***************************************************************************)
BaseHandler(id) == [kind |-> "base", id |-> id]

\* A Middleware of the shape of the tests' notify: it logs "before", calls
\* the next handler and logs "after".
Wrap(name, next) == [kind |-> "mw", name |-> name, next |-> next]

RECURSIVE Run(_)
Run(h) ==
    IF h.kind = "base" THEN << <<h.id, "handler">> >>
    ELSE << <<h.name, "before">> >> \o Run(h.next) \o << <<h.name, "after">> >>

adaptForward(h, ms) ==
    LET RECURSIVE go(_, _)
        go(hh, i) == IF i > Len(ms) THEN hh ELSE go(Wrap(ms[i], hh), i + 1)
    IN  go(h, 1)

adapt(h, ms) ==
    LET RECURSIVE go(_, _)
        go(hh, i) == IF i < 1 THEN hh ELSE go(Wrap(ms[i], hh), i - 1)
    IN  go(h, Len(ms))

(***************************************************************************)
(* Routes                                                                  *)
(***************************************************************************)
pathSegments(pattern) == Split(Trim(pattern, SLASH), SLASH)

newRouteNoLower(method, pattern, handler) ==
    [method  |-> method,
     segs    |-> pathSegments(pattern),
     handler |-> handler,
     prefix  |-> HasSuffix(pattern, <<SLASH>>) \/ HasSuffix(pattern, DOTS)]

newRoute(method, pattern, handler) ==
    [method  |-> ToLower(method),
     segs    |-> pathSegments(pattern),
     handler |-> handler,
     prefix  |-> HasSuffix(pattern, <<SLASH>>) \/ HasSuffix(pattern, DOTS)]

\* direct.go:115, the length check before the walk.
tooLongIgnoringPrefix(segs, r) == Len(segs) > Len(r.segs)

tooLong(segs, r) == Len(segs) > Len(r.segs) /\ ~r.prefix

\* direct.go:123-126, a parameter segment and its name.
isParamSeg(seg) == HasPrefix(seg, <<COLON>>)

paramNameKeepsColon(seg) == seg

paramName(seg) == TrimPrefix(seg, <<COLON>>)

\* direct.go:128-129, the prefix test of a literal segment ending in "...".
prefixTestSwapped(seg, s) ==
    /\ HasSuffix(seg, DOTS)
    /\ HasPrefix(SubSeq(seg, 1, Len(seg) - 3), s)

prefixTest(seg, s) ==
    /\ HasSuffix(seg, DOTS)
    /\ HasPrefix(s, SubSeq(seg, 1, Len(seg) - 3))

NoMatch == [ok |-> FALSE, ctx |-> NilCtx]

\* direct.go:118-141, the walk over the pattern segments from index i
\* (1-based here, 0-based in the code).
RECURSIVE matchFrom(_, _, _, _)
matchFrom(ctx, r, segs, i) ==
    IF i > Len(r.segs) THEN [ok |-> TRUE, ctx |-> ctx]
    ELSE IF i > Len(segs) THEN NoMatch
    ELSE IF ~isParamSeg(r.segs[i])
         THEN IF prefixTest(r.segs[i], segs[i]) THEN [ok |-> TRUE, ctx |-> ctx]
              ELSE IF r.segs[i] # segs[i] THEN NoMatch
              ELSE matchFrom(ctx, r, segs, i + 1)
         ELSE matchFrom(WithValue(ctx, paramName(r.segs[i]), segs[i]), r, segs, i + 1)

match(ctx, r, path) ==
    LET segs == pathSegments(path)
    IN  IF tooLong(segs, r) THEN NoMatch ELSE matchFrom(ctx, r, segs, 1)

(***************************************************************************)
(* Inputs of the matcher: patterns and paths built from segments.          *)
(***************************************************************************)
RECURSIVE Join(_)
Join(ss) ==
    IF Len(ss) = 0 THEN << >>
    ELSE IF Len(ss) = 1 THEN ss[1]
    ELSE ss[1] \o <<SLASH>> \o Join(Tail(ss))

SeqsUpTo(S, n) == UNION {[1..k -> S] : k \in 1..n}

PatSegVocab == {<< >>, <<"a">>, <<":", "a">>, <<":", "b">>, <<"a", "b", ".", ".", ".">>}
PathSegVocab == {<< >>, <<"a">>, <<"a", "b">>, <<"a", "b", ".", ".", ".">>}

MatchPatterns ==
    {lead \o Join(ss) \o trail :
        lead \in {<< >>, <<SLASH>>}, trail \in {<< >>, <<SLASH>>},
        ss \in SeqsUpTo(PatSegVocab, MaxPatSegs)}

MatchPaths ==
    {<<SLASH>> \o Join(ss) \o trail :
        trail \in {<< >>, <<SLASH>>}, ss \in SeqsUpTo(PathSegVocab, MaxPathSegs)}

MtIdle == [pattern |-> << >>, path |-> << >>, done |-> FALSE, ok |-> FALSE, ctx |-> NilCtx]

(***************************************************************************)
(* The router                                                              *)
(*                                                                         *)
(* routes, mw and NotFound are the fields of Router.  registered is a      *)
(* history variable: the arguments of the Handle calls, in order.          *)
(* reqs[q] is the ServeHTTP call running in goroutine q: its request       *)
(* (reqMethod, path, ctx), its local variables (method, the loop index i   *)
(* over the n routes the range statement saw), and what it did (tried: the *)
(* routes match was called on; calls: the handlers it invoked, with the    *)
(* context each received; log: what the middleware and handlers logged).   *)
(* mt is one application of route.match (SpecMatch).                       *)
(***************************************************************************)
Slots == {1, 2}

DefaultNotFound == BaseHandler("http.NotFound")

IdleReq ==
    [pc |-> "idle", reqMethod |-> << >>, method |-> << >>, path |-> << >>,
     ctx |-> Background, i |-> 0, n |-> 0, tried |-> {}, calls |-> << >>,
     log |-> << >>]

\* NewRouter(mw...)
InitRouter(ms) ==
    /\ routes = << >>
    /\ mw = ms
    /\ NotFound = DefaultNotFound
    /\ registered = << >>
    /\ reqs = [q \in Slots |-> IdleReq]

\* The route list and NotFound are read without synchronisation
\* (direct.go:54, 66 and 75), so Handle and the assignment of NotFound run
\* while no ServeHTTP call is in progress.
NoServe == \A q \in Slots : reqs[q].pc = "idle"

\* direct.go:54
prependRoute(rs, route) == <<route>> \o rs

appendRoute(rs, route) == Append(rs, route)

Handle(method, pattern, handler, hmw) ==
    /\ NoServe
    /\ LET h1 == adapt(handler, hmw)
           h2 == adapt(h1, mw)
           route == newRoute(method, pattern, h2)
       IN  routes' = appendRoute(routes, route)
    /\ registered' = Append(registered,
          [method |-> method, pattern |-> pattern, handler |-> handler, mw |-> hmw])
    /\ UNCHANGED <<mw, NotFound, reqs, mt>>

\* r.NotFound = h
SetNotFound(h) ==
    /\ NoServe
    /\ h # NotFound
    /\ NotFound' = h
    /\ UNCHANGED <<routes, mw, registered, reqs, mt>>

\* A request whose context carries what another request's handler saw.
ArriveShared(q, method, path) ==
    /\ reqs[q].pc = "idle"
    /\ reqs' = [reqs EXCEPT ![q] =
          [pc |-> "scan", reqMethod |-> method, method |-> ToLower(method),
           path |-> path,
           ctx |-> IF \E o \in Slots : reqs[o].calls # << >>
                   THEN reqs[CHOOSE o \in Slots : reqs[o].calls # << >>].calls[1].ctx
                   ELSE Background,
           i |-> 1, n |-> Len(routes), tried |-> {}, calls |-> << >>, log |-> << >>]]
    /\ UNCHANGED <<routes, mw, NotFound, registered, mt>>

\* direct.go:64-66: ServeHTTP is called with a request, lowers its method
\* and starts the range over r.routes.
Arrive(q, method, path) ==
    /\ reqs[q].pc = "idle"
    /\ reqs' = [reqs EXCEPT ![q] =
          [pc |-> "scan", reqMethod |-> method, method |-> ToLower(method),
           path |-> path, ctx |-> Background,
           i |-> 1, n |-> Len(routes), tried |-> {}, calls |-> << >>, log |-> << >>]]
    /\ UNCHANGED <<routes, mw, NotFound, registered, mt>>

\* direct.go:66, the i-th route of the range.
scanIndexReversed(i, n) == n + 1 - i

scanIndex(i, n) == i

\* One iteration that goes on with the loop after a dispatch.
TryRouteNoReturn(q) ==
    /\ reqs[q].pc = "scan"
    /\ reqs[q].i <= reqs[q].n
    /\ LET rq == reqs[q]
           k == scanIndex(rq.i, rq.n)
           route == routes[k]
       IN  IF route.method # rq.method /\ route.method # STAR
           THEN reqs' = [reqs EXCEPT ![q].i = rq.i + 1]
           ELSE LET res == match(rq.ctx, route, rq.path)
                IN  IF res.ok
                    THEN reqs' = [reqs EXCEPT
                            ![q].tried = rq.tried \cup {k},
                            ![q].calls = Append(rq.calls,
                                [route |-> k, h |-> route.handler, ctx |-> res.ctx]),
                            ![q].log = rq.log \o Run(route.handler),
                            ![q].i = rq.i + 1]
                    ELSE reqs' = [reqs EXCEPT
                            ![q].tried = rq.tried \cup {k},
                            ![q].i = rq.i + 1]
    /\ UNCHANGED <<routes, mw, NotFound, registered, mt>>

\* direct.go:66-74: one iteration of the loop.
TryRoute(q) ==
    /\ reqs[q].pc = "scan"
    /\ reqs[q].i <= reqs[q].n
    /\ LET rq == reqs[q]
           k == scanIndex(rq.i, rq.n)
           route == routes[k]
       IN  IF route.method # rq.method /\ route.method # STAR
           THEN reqs' = [reqs EXCEPT ![q].i = rq.i + 1]
           ELSE LET res == match(rq.ctx, route, rq.path)
                IN  IF res.ok
                    THEN reqs' = [reqs EXCEPT
                            ![q].tried = rq.tried \cup {k},
                            ![q].calls = Append(rq.calls,
                                [route |-> k, h |-> route.handler, ctx |-> res.ctx]),
                            ![q].log = rq.log \o Run(route.handler),
                            ![q].pc = "done"]
                    ELSE reqs' = [reqs EXCEPT
                            ![q].tried = rq.tried \cup {k},
                            ![q].i = rq.i + 1]
    /\ UNCHANGED <<routes, mw, NotFound, registered, mt>>

\* direct.go:75: the loop ended without a match.
NotFoundStep(q) ==
    /\ reqs[q].pc = "scan"
    /\ reqs[q].i > reqs[q].n
    /\ reqs' = [reqs EXCEPT
          ![q].calls = Append(reqs[q].calls,
              [route |-> 0, h |-> NotFound, ctx |-> reqs[q].ctx]),
          ![q].log = reqs[q].log \o Run(NotFound),
          ![q].pc = "done"]
    /\ UNCHANGED <<routes, mw, NotFound, registered, mt>>

\* ServeHTTP has returned; the goroutine is free for the next request.
Finish(q) ==
    /\ reqs[q].pc = "done"
    /\ reqs' = [reqs EXCEPT ![q] = IdleReq]
    /\ UNCHANGED <<routes, mw, NotFound, registered, mt>>

(***************************************************************************)
(* Spec: registrations and concurrent requests over overlapping routes.    *)
(***************************************************************************)
HandleMethods == {<<"G", "e", "t">>, STAR, <<"P", "O", "S", "T">>}
ReqMethods == {<<"G", "E", "T">>, <<"p", "o", "s", "t">>}
RouterPatterns ==
    {<<"/", ":", "x", "/", "b">>, <<"/", "a", "/", ":", "y">>, <<"/", "a", "/", "a">>}
ReqPaths == {<<"/", "a", "/", "a">>, <<"/", "a", "/", "b">>}
NotFoundHandlers == {DefaultNotFound, BaseHandler("custom404")}

Init ==
    /\ InitRouter(<<"r1">>)
    /\ mt = MtIdle

Next ==
    \/ \E m \in HandleMethods, p \in RouterPatterns :
          Len(routes) < MaxRoutes /\ Handle(m, p, BaseHandler("h"), << >>)
    \/ \E h \in NotFoundHandlers : SetNotFound(h)
    \/ \E q \in Slots, m \in ReqMethods, x \in ReqPaths : Arrive(q, m, x)
    \/ \E q \in Slots : TryRoute(q)
    \/ \E q \in Slots : NotFoundStep(q)
    \/ \E q \in Slots : Finish(q)

Spec == Init /\ [][Next]_vars

(***************************************************************************)
(* SpecMw: middleware lists on the router and on the routes, one request   *)
(* at a time.                                                              *)
(***************************************************************************)
SeqsFromZero(S, n) == {<< >>} \cup SeqsUpTo(S, n)

InitMw ==
    /\ \E ms \in SeqsFromZero({"r1", "r2"}, MaxMw) : InitRouter(ms)
    /\ mt = MtIdle

NextMw ==
    \/ \E hmw \in SeqsFromZero({"h1", "h2"}, MaxMw) :
          /\ Len(routes) < MaxMwRoutes
          /\ Handle(<<"G", "E", "T">>, <<"/", "a", "/", ":", "y">>, BaseHandler("h"), hmw)
    \/ \E x \in ReqPaths : Arrive(1, <<"G", "E", "T">>, x)
    \/ TryRoute(1)
    \/ NotFoundStep(1)
    \/ Finish(1)

SpecMw == InitMw /\ [][NextMw]_vars

(***************************************************************************)
(* SpecMatch: route.match on every pattern and path of the bounded sets.   *)
(***************************************************************************)
\* One application of route.match to a pattern and a path, as TestRouting
\* applies it: a route built from the pattern, matched against the path.
MatchStep ==
    /\ ~mt.done
    /\ LET r == newRoute(<<"G", "E", "T">>, mt.pattern, BaseHandler("h"))
           res == match(Background, r, mt.path)
       IN  mt' = [mt EXCEPT !.done = TRUE, !.ok = res.ok, !.ctx = res.ctx]
    /\ UNCHANGED <<routes, mw, NotFound, registered, reqs>>

InitMatch ==
    /\ InitRouter(<< >>)
    /\ \E p \in MatchPatterns, x \in MatchPaths :
          mt = [MtIdle EXCEPT !.pattern = p, !.path = x]

NextMatch == MatchStep

SpecMatch == InitMatch /\ [][NextMatch]_vars

(***************************************************************************)
(* Properties of Router.Handle and Router.ServeHTTP (Spec, SpecMw)         *)
(***************************************************************************)
IsParam(seg) == seg # << >> /\ seg[1] = COLON

ParamPositions(P) == {i \in 1..Len(P) : IsParam(P[i])}

\* The handler a finished ServeHTTP call invoked: its route (0 for the
\* NotFound handler), the handler and the context it received.
Call(q) == reqs[q].calls[1]

SetMin(S) == CHOOSE x \in S : \A y \in S : x <= y

\* The routes, among those the call ranged over, that match its request.
Matching(q) ==
    {k \in 1..reqs[q].n :
        /\ routes[k].method = reqs[q].method \/ routes[k].method = STAR
        /\ match(Background, routes[k], reqs[q].path).ok}

\* C1: a ServeHTTP call invokes exactly one handler, once: the composed
\* handler of a matching route if some route matches method and path,
\* otherwise the NotFound handler and no registered handler.
C1_ExactlyOneHandler ==
    \A q \in Slots :
        /\ reqs[q].pc = "scan" => reqs[q].calls = << >>
        /\ reqs[q].pc = "done" =>
              /\ Len(reqs[q].calls) = 1
              /\ reqs[q].log = Run(Call(q).h)
              /\ IF Matching(q) # {}
                 THEN /\ Call(q).route \in Matching(q)
                      /\ Call(q).h = routes[Call(q).route].handler
                 ELSE /\ Call(q).route = 0
                      /\ Call(q).h = NotFound
                      /\ \A k \in 1..Len(routes) : Call(q).h # routes[k].handler

C1_Witness ==
    /\ Len(routes) >= 2
    /\ \E q, o \in Slots :
          /\ reqs[q].pc = "done" /\ Call(q).route = 2
          /\ reqs[o].pc = "done" /\ Call(o).route = 0 /\ reqs[o].tried # {}

\* C2: when several registered routes match a request, ServeHTTP dispatches
\* to the one registered first, whatever the later routes look like.
C2_FirstRegisteredWins ==
    \A q \in Slots :
        (reqs[q].pc = "done" /\ Matching(q) # {}) =>
            Call(q).route = SetMin(Matching(q))

C2_Witness ==
    \E q \in Slots :
        /\ reqs[q].pc = "done"
        /\ Call(q).route = 1
        /\ 2 \in Matching(q)
        /\ ParamPositions(routes[1].segs) # {}
        /\ ParamPositions(routes[2].segs) = {}
        /\ routes[1].method = STAR /\ routes[2].method # STAR

\* Equality of method strings ignoring letter case.
CasePairs ==
    {<<"G", "g">>, <<"E", "e">>, <<"T", "t">>, <<"P", "p">>, <<"O", "o">>, <<"S", "s">>}

EqualFold(a, b) ==
    /\ Len(a) = Len(b)
    /\ \A k \in 1..Len(a) :
          a[k] = b[k] \/ <<a[k], b[k]>> \in CasePairs \/ <<b[k], a[k]>> \in CasePairs

MethodSelects(routeMethod, reqMethod) ==
    routeMethod = STAR \/ EqualFold(routeMethod, reqMethod)

\* The routes a call has gone past or stopped at.
Visited(q) ==
    IF reqs[q].pc = "scan" THEN reqs[q].i - 1
    ELSE IF Call(q).route > 0 THEN Call(q).route
    ELSE reqs[q].n

PathMatches(k, q) == match(Background, routes[k], reqs[q].path).ok

\* C7: a route is tried against a request exactly when the method it was
\* registered with is "*" or equals the request method ignoring case; a "*"
\* route whose path matches is dispatched under any request method (when no
\* earlier route is), and a route registered with another method is never
\* dispatched.
C7_MethodSelection ==
    \A q \in Slots :
        reqs[q].pc # "idle" =>
            /\ \A k \in 1..Visited(q) :
                  (k \in reqs[q].tried) <=>
                      MethodSelects(registered[k].method, reqs[q].reqMethod)
            /\ reqs[q].pc = "done" =>
                  /\ Call(q).route > 0 =>
                        MethodSelects(registered[Call(q).route].method, reqs[q].reqMethod)
                  /\ \A k \in 1..reqs[q].n :
                        (/\ registered[k].method = STAR
                         /\ PathMatches(k, q)
                         /\ \A j \in 1..(k - 1) :
                               ~(/\ MethodSelects(registered[j].method, reqs[q].reqMethod)
                                 /\ PathMatches(j, q)))
                            => Call(q).route = k

C7_Witness ==
    \E q, o \in Slots :
        /\ reqs[q].pc = "done" /\ Call(q).route = 2
        /\ registered[2].method = STAR
        /\ 1 \notin reqs[q].tried /\ PathMatches(1, q)
        /\ reqs[o].pc = "done" /\ Call(o).route = 1
        /\ registered[1].method # STAR
        /\ registered[1].method # reqs[o].reqMethod
        /\ registered[1].method # reqs[o].method

\* C8: the handler invoked for a request receives only captures that its
\* own route made from the request's own path: no capture of a route whose
\* match failed, none of another request; the NotFound handler receives
\* the request's context with nothing added.
C8_CapturesPrivate ==
    \A q \in Slots :
        /\ reqs[q].pc # "idle" => reqs[q].ctx = Background
        /\ reqs[q].pc = "done" =>
              IF Call(q).route = 0
              THEN Call(q).ctx = reqs[q].ctx
              ELSE LET P == routes[Call(q).route].segs
                       X == pathSegments(reqs[q].path)
                       vals == Call(q).ctx.vals
                   IN  /\ ~Call(q).ctx.nil
                       /\ Len(vals) = Cardinality(ParamPositions(P))
                       /\ \A e \in 1..Len(vals) :
                             \E i \in ParamPositions(P) :
                                 i <= Len(X) /\ vals[e] = <<Tail(P[i]), X[i]>>

C8_Witness ==
    \E q, o \in Slots :
        /\ q # o
        /\ reqs[q].pc = "done" /\ Call(q).route = 2
        /\ 1 \in reqs[q].tried
        /\ IsParam(routes[1].segs[1])
        /\ Call(q).ctx.vals # << >>
        /\ reqs[o].pc = "done" /\ Call(o).route > 0
        /\ Call(o).ctx.vals # << >>
        /\ Call(o).ctx # Call(q).ctx

\* C9: every step leaves the registered routes as they are and in their
\* order; Handle adds exactly one route at the end; the steps of ServeHTTP
\* leave the route list, the router-wide middleware and NotFound unchanged.
C9_RoutesAppendOnly ==
    [][/\ \/ routes' = routes
          \/ /\ Len(routes') = Len(routes) + 1
             /\ SubSeq(routes', 1, Len(routes)) = routes
       /\ registered' # registered =>
             /\ Len(routes') = Len(routes) + 1
             /\ mw' = mw
       /\ reqs' # reqs =>
             /\ routes' = routes
             /\ mw' = mw
             /\ NotFound' = NotFound]_vars

C9_Witness ==
    /\ Len(routes) >= 2
    /\ routes[1] # routes[2]
    /\ NotFound # DefaultNotFound
    /\ \E q, o \in Slots :
          /\ reqs[q].pc = "done" /\ Call(q).route > 0
          /\ reqs[o].pc = "done" /\ Call(o).route = 0 /\ reqs[o].tried # {}

Reverse(ms) == [i \in 1..Len(ms) |-> ms[Len(ms) + 1 - i]]
Befores(ms) == [i \in 1..Len(ms) |-> <<ms[i], "before">>]
Afters(ms) == [i \in 1..Len(ms) |-> <<ms[i], "after">>]

\* C3: with router-wide middleware r1..rn and handler-specific middleware
\* h1..hm, a dispatch logs r1..rn before, h1..hm before, the handler,
\* hm..h1 after, rn..r1 after.
C3_OnionOrder ==
    \A q \in Slots :
        (reqs[q].pc = "done" /\ Call(q).route > 0) =>
            LET reg == registered[Call(q).route]
            IN  reqs[q].log =
                    Befores(mw) \o Befores(reg.mw)
                    \o << <<reg.handler.id, "handler">> >>
                    \o Afters(Reverse(reg.mw)) \o Afters(Reverse(mw))

C3_Witness ==
    \E q \in Slots :
        /\ reqs[q].pc = "done" /\ Call(q).route > 0
        /\ mw = <<"r1", "r2">>
        /\ registered[Call(q).route].mw = <<"h2", "h1">>

(***************************************************************************)
(* Properties of route.match (SpecMatch)                                   *)
(*                                                                         *)
(* P is the sequence of pattern segments and X the sequence of request     *)
(* segments.                                                               *)
(***************************************************************************)
StartsWith(s, p) == Len(p) <= Len(s) /\ \A k \in 1..Len(p) : s[k] = p[k]

EndsWithDots(s) == Len(s) >= 3 /\ \A k \in 0..2 : s[Len(s) - k] = "."

\* A literal pattern segment ending in "...", and the literal without it.
IsDotsLiteral(seg) == ~IsParam(seg) /\ EndsWithDots(seg)
Stem(seg) == SubSeq(seg, 1, Len(seg) - 3)

\* Request segment j agrees with pattern segment j: a parameter, or the
\* same literal.
Agree(P, X, j) == j <= Len(X) /\ (IsParam(P[j]) \/ P[j] = X[j])

\* No literal "..." segment precedes position i.
Walked(P, i) == \A j \in 1..(i - 1) : ~IsDotsLiteral(P[j])

SetMax(S) == CHOOSE x \in S : \A y \in S : y <= x

LastWalked(P, name) ==
    SetMax({j \in ParamPositions(P) : Walked(P, j) /\ Tail(P[j]) = name})

PatternIsPrefix(pattern) ==
    (pattern # << >> /\ pattern[Len(pattern)] = SLASH) \/ EndsWithDots(pattern)

\* C4 as stated: on a match, every parameter of the pattern maps to the
\* request segment at its own position.
C4_EveryParamAtItsPosition ==
    (mt.done /\ mt.ok) =>
        LET P == pathSegments(mt.pattern)
            X == pathSegments(mt.path)
        IN  \A i \in ParamPositions(P) :
                i <= Len(X) /\ Param(mt.ctx, Tail(P[i])) = X[i]

\* C4 amended: on a match, every parameter segment that no literal "..."
\* segment precedes is captured, and Param gives the request segment at the
\* last such position carrying the name (its own position when the name is
\* not repeated); a parameter after a literal "..." segment is not captured.
C4_WalkedParamsLastWins ==
    (mt.done /\ mt.ok) =>
        LET P == pathSegments(mt.pattern)
            X == pathSegments(mt.path)
        IN  \A i \in ParamPositions(P) :
                IF Walked(P, i)
                THEN /\ i <= Len(X)
                     /\ Param(mt.ctx, Tail(P[i])) = X[LastWalked(P, Tail(P[i]))]
                     /\ (LastWalked(P, Tail(P[i])) = i =>
                            Value(mt.ctx, Tail(P[i])) = [found |-> TRUE, val |-> X[i]])
                ELSE (\A j \in ParamPositions(P) : Walked(P, j) => Tail(P[j]) # Tail(P[i]))
                        => ~Value(mt.ctx, Tail(P[i])).found

C4_Witness ==
    /\ mt.done /\ mt.ok
    /\ LET P == pathSegments(mt.pattern)
           X == pathSegments(mt.path)
       IN  \E i, j \in ParamPositions(P) :
              /\ i < j /\ Walked(P, j)
              /\ Tail(P[i]) # Tail(P[j])
              /\ X[i] # X[j]
              /\ X[i] # << >> /\ X[j] # << >>

\* The walk arrives at the literal "..." segment i and its prefix test
\* succeeds.
DotsHit(P, X, i) ==
    /\ IsDotsLiteral(P[i])
    /\ i <= Len(X)
    /\ StartsWith(X[i], Stem(P[i]))
    /\ \A j \in 1..(i - 1) : Agree(P, X, j)

\* C5 as stated: a literal "..." segment whose prefix test succeeds makes
\* the whole match succeed, however many request segments follow.
C5_DotsAlwaysShortCircuit ==
    mt.done =>
        LET P == pathSegments(mt.pattern)
            X == pathSegments(mt.path)
        IN  (\E i \in 1..Len(P) : DotsHit(P, X, i)) => mt.ok

\* C5 amended: it does so when the pattern ends in "/" or "...", or the
\* request has no more segments than the pattern.
C5_DotsShortCircuitAfterLengthCheck ==
    mt.done =>
        LET P == pathSegments(mt.pattern)
            X == pathSegments(mt.path)
        IN  (/\ \E i \in 1..Len(P) : DotsHit(P, X, i)
             /\ (PatternIsPrefix(mt.pattern) \/ Len(X) <= Len(P))) => mt.ok

C5_Witness ==
    /\ mt.done /\ mt.ok
    /\ LET P == pathSegments(mt.pattern)
           X == pathSegments(mt.path)
       IN  /\ Len(X) > Len(P)
           /\ \E i \in 1..(Len(P) - 1) :
                 /\ DotsHit(P, X, i)
                 /\ X[i] # Stem(P[i])
                 /\ ~Agree(P, X, i + 1)

\* A path made of base, a slash and further segments, one of them not empty.
Extends(path, base) ==
    /\ StartsWith(path, base \o <<SLASH>>)
    /\ Trim(SubSeq(path, Len(base) + 2, Len(path)), SLASH) # << >>

\* C6: a pattern ending in "/" matches its pattern path (the pattern without
\* the trailing slash), the pattern itself and every path that extends the
\* pattern path by further segments; a pattern ending in neither "/" nor
\* "..." matches no path that extends it by further segments.
C6_TrailingSlashIsPrefix ==
    mt.done =>
        /\ (/\ mt.pattern # << >> /\ mt.pattern[Len(mt.pattern)] = SLASH
            /\ LET patternPath == SubSeq(mt.pattern, 1, Len(mt.pattern) - 1)
               IN  \/ mt.path = patternPath
                   \/ mt.path = mt.pattern
                   \/ Extends(mt.path, patternPath)) => mt.ok
        /\ (~PatternIsPrefix(mt.pattern) /\ Extends(mt.path, mt.pattern)) => ~mt.ok

\* The walk arrives at the literal "..." segment i and its prefix test
\* fails.
DotsMiss(P, X, i) ==
    /\ IsDotsLiteral(P[i])
    /\ i <= Len(X)
    /\ ~StartsWith(X[i], Stem(P[i]))
    /\ \A j \in 1..(i - 1) : Agree(P, X, j) /\ ~IsDotsLiteral(P[j])
    /\ (PatternIsPrefix(mt.pattern) \/ Len(X) <= Len(P))

\* The walk under the other reading: a failed prefix test fails the match
\* at once, without the equality check.
RECURSIVE matchFromFailFast(_, _, _, _)
matchFromFailFast(ctx, r, segs, i) ==
    IF i > Len(r.segs) THEN [ok |-> TRUE, ctx |-> ctx]
    ELSE IF i > Len(segs) THEN NoMatch
    ELSE IF ~isParamSeg(r.segs[i])
         THEN IF HasSuffix(r.segs[i], DOTS)
              THEN IF prefixTest(r.segs[i], segs[i]) THEN [ok |-> TRUE, ctx |-> ctx]
                   ELSE NoMatch
              ELSE IF r.segs[i] # segs[i] THEN NoMatch
              ELSE matchFromFailFast(ctx, r, segs, i + 1)
         ELSE matchFromFailFast(WithValue(ctx, paramName(r.segs[i]), segs[i]), r, segs, i + 1)

matchFailFast(ctx, r, path) ==
    LET segs == pathSegments(path)
    IN  IF tooLong(segs, r) THEN NoMatch ELSE matchFromFailFast(ctx, r, segs, 1)

\* C10: when the walk arrives at a literal "..." segment whose prefix test
\* fails, the equality check fails too and the match is no-match; match
\* gives the result of the fail-at-once reading for every pattern and path.
C10_PrefixFailedMatchFails ==
    mt.done =>
        /\ LET P == pathSegments(mt.pattern)
               X == pathSegments(mt.path)
           IN  \A i \in 1..Len(P) :
                  DotsMiss(P, X, i) => (P[i] # X[i] /\ ~mt.ok)
        /\ [ok |-> mt.ok, ctx |-> mt.ctx] =
              matchFailFast(Background,
                            newRoute(<<"G", "E", "T">>, mt.pattern, BaseHandler("h")),
                            mt.path)

C10_Witness ==
    /\ mt.done /\ ~mt.ok
    /\ LET P == pathSegments(mt.pattern)
           X == pathSegments(mt.path)
       IN  \E i \in 2..Len(P) :
              /\ DotsMiss(P, X, i)
              /\ StartsWith(Stem(P[i]), X[i])
              /\ X[i] # << >>

====
